---- MODULE Spec2Model ----
(***************************************************************************)
(* LinkedIn-Post-Generator: the enrichment pipeline (preprocess.py) and    *)
(* the few-shot retrieval engine (few_shot.py).                            *)
(*                                                                         *)
(* Representation.  A text is the sequence of its lines (text.split("\n")).*)
(* A JSON object is a record whose DOMAIN is the set of keys present.      *)
(* Python's None / JSON null in a string-valued slot is the value None.    *)
(* A file is a record: absent, empty (zero bytes) or holding a JSON list.  *)
(***************************************************************************)
EXTENDS Integers, Sequences, FiniteSets, TLC

VARIABLES
    rawFile,        \* content of data/raw_posts.json
    file,           \* data/processed_posts.json, the persisted corpus
    prior,          \* the persisted corpus as it was before the run started
    pc,             \* position of preprocess_posts()
    raw_posts,      \* preprocess_posts: raw_posts
    enriched_posts, \* preprocess_posts: enriched_posts
    all_tags,       \* preprocess_posts: all_tags
    tag_mapping,    \* preprocess_posts: tag_mapping
    applied,        \* number of posts the "apply unified tags" loop has done
    responses,      \* what the classification chain answered, per post
    unified,        \* what the unification chain answered, once called
    error,          \* exception that left preprocess_posts, or None
    query,          \* arguments of the last retrieval call
    df,             \* get_filtered_posts: row labels of df before .head()
    results,        \* return value of the last retrieval call
    raised          \* exception that left the last retrieval call, or None

pvars == <<rawFile, pc, raw_posts, enriched_posts, all_tags, tag_mapping,
           applied, responses, unified, error>>
rvars == <<query, df, results, raised>>
vars  == <<rawFile, file, prior, pc, raw_posts, enriched_posts, all_tags,
           tag_mapping, applied, responses, unified, error, query, df, results,
           raised>>

None == "None"

(***************************************************************************)
(* Bounds                                                                  *)
(***************************************************************************)
MaxRaw == 2         \* raw posts in raw_posts.json
MaxCorpus == 3      \* posts in a previously persisted corpus
MaxResults == 3     \* largest max_results asked for
MaxLineCount == 60  \* largest line count handed to categorize_length
MaxTags == 3        \* tags of the post the mapping is applied to repeatedly
MaxPasses == 2      \* times the apply step is run over that post

(***************************************************************************)
(* Sequence helpers                                                        *)
(***************************************************************************)
Range(s) == {s[i] : i \in 1..Len(s)}

SeqsUpTo(S, n) == UNION {[1..k -> S] : k \in 0..n}

Lines(n) == [i \in 1..n |-> "a"]

(***************************************************************************)
(* preprocess.py                                                           *)
(***************************************************************************)

\* str.strip() of one line: whitespace-only lines become empty.
strip(line) == IF line \in {"", " ", "  "} THEN "" ELSE line

\* count_lines: [line for line in text.split("\n") if line.strip()]
count_lines(text) == Len(SelectSeq(text, LAMBDA line : strip(line) # ""))

\* dict.get(key, default) on a JSON object d whose null-valued keys are nulls
DictGet(d, nulls, key, default) ==
    IF key \in nulls THEN None
    ELSE IF key \in DOMAIN d THEN d[key] ELSE default

\* The except-branch of extract_metadata_for_post
DefaultMetadata == [language |-> "English", tags |-> <<"General">>]

\* extract_metadata_for_post without the try/except: the exception of the
\* chain leaves the function
extract_metadata_Propagates(r) ==
    [isdict |-> r.isdict, d |-> r.d, nulls |-> r.nulls]

\* extract_metadata_for_post(llm, text): the chain's answer r either raises
\* (service error, unparsable output) or is the parsed JSON value.
extract_metadata_for_post(r) ==
    IF r.raises
    THEN [isdict |-> TRUE, d |-> DefaultMetadata, nulls |-> {}]
    ELSE [isdict |-> r.isdict, d |-> r.d, nulls |-> r.nulls]

\* list(set(all_tags)), as a set
unique_tags(tags) == Range(tags)

\* unify_all_tags whose fallback is an empty mapping
unify_all_tags_EmptyOnFailure(u, tags) ==
    IF u.raises THEN <<>> ELSE u.mapping

\* unify_all_tags(llm, all_tags): u is the chain's answer
unify_all_tags(u, tags) ==
    IF u.raises
    THEN [t \in unique_tags(tags) |-> t]
    ELSE u.mapping

\* tag_mapping.get(tag, "General"): a default other than the tag itself
MapTag_DefaultGeneral(m, tag) == IF tag \in DOMAIN m THEN m[tag] ELSE "General"

\* tag_mapping.get(tag, tag)
MapTag(m, tag) == IF tag \in DOMAIN m THEN m[tag] ELSE tag

\* [tag_mapping.get(tag, tag) for tag in post["tags"]]
MapTags(m, tags) == [k \in 1..Len(tags) |-> MapTag(m, tags[k])]

\* list(dict.fromkeys(tags)): insert the keys left to right, a key already
\* present keeps its position
RECURSIVE FromKeys(_, _)
FromKeys(tags, acc) ==
    IF tags = <<>> THEN acc
    ELSE FromKeys(Tail(tags),
                  IF Head(tags) \in Range(acc) THEN acc
                  ELSE Append(acc, Head(tags)))

\* dedup that keeps the last occurrence of a repeated tag
RECURSIVE KeepLast(_)
KeepLast(tags) ==
    IF tags = <<>> THEN <<>>
    ELSE IF Head(tags) \in Range(Tail(tags)) THEN KeepLast(Tail(tags))
    ELSE <<Head(tags)>> \o KeepLast(Tail(tags))

Dedup_KeepLast(tags) == KeepLast(tags)

Dedup(tags) == FromKeys(tags, <<>>)

\* lines 170-173 for one post
ApplyMapping(m, post) == [post EXCEPT !.tags = Dedup(MapTags(m, post.tags))]

(***************************************************************************)
(* Inputs                                                                  *)
(***************************************************************************)
RawPool ==
    { [text |-> <<"a", "", "  ", "b">>, engagement |-> 50],
      [text |-> Lines(5)],
      [engagement |-> 10] }

\* answers of the classification chain
Raises == [raises |-> TRUE, isdict |-> FALSE, d |-> <<>>, nulls |-> {}]
Answer(d, nulls) == [raises |-> FALSE, isdict |-> TRUE, d |-> d, nulls |-> nulls]
NotADict == [raises |-> FALSE, isdict |-> FALSE, d |-> <<>>, nulls |-> {}]

Responses ==
    { Raises,
      Answer([language |-> "Hinglish", tags |-> <<"ML", "AI">>], {}),
      Answer([language |-> "English", tags |-> <<"AI", "ML", "AI">>], {}),
      Answer([tags |-> <<"ML">>], {}),
      Answer([language |-> "English"], {}),
      Answer([language |-> None, tags |-> <<"AI">>], {"language"}),
      Answer([language |-> "English"], {"tags"}),
      NotADict }

\* answers of the unification chain
UnifyAnswer(m) == [raises |-> FALSE, mapping |-> m]

UnifyResponses ==
    { [raises |-> TRUE, mapping |-> <<>>],
      UnifyAnswer([t \in {"ML", "AI", "General"} |-> t]),
      UnifyAnswer([t \in {"ML", "AI"} |-> "ML"]),
      UnifyAnswer([t \in {"AI", "General"} |->
                      IF t = "AI" THEN "ML" ELSE "Topic"]),
      UnifyAnswer([t \in {"ML", "AI"} |-> IF t = "AI" THEN "ML" ELSE "AI"]),
      UnifyAnswer(<<>>) }

\* previously persisted corpora
Absent == [state |-> "absent"]
Empty == [state |-> "empty"]
Json(posts) == [state |-> "json", posts |-> posts]

EnrichedPost(text, engagement, language, tags) ==
    [text |-> text, engagement |-> engagement, line_count |-> count_lines(text),
     language |-> language, tags |-> tags]

CorpusPool ==
    { EnrichedPost(Lines(4), 10, "English", <<"ML">>),
      EnrichedPost(Lines(5), 50, "English", <<"ML", "AI">>),
      EnrichedPost(Lines(10), 50, "Hinglish", <<"AI">>),
      EnrichedPost(Lines(11), 30, "Hinglish", <<>>),
      EnrichedPost(Lines(5), 50, "English", <<"AI">>) }

(***************************************************************************)
(* preprocess_posts()                                                      *)
(***************************************************************************)
Fail(e) ==
    /\ pc' = "failed"
    /\ error' = e
    /\ raw_posts' = <<>>
    /\ enriched_posts' = <<>>
    /\ all_tags' = <<>>
    /\ tag_mapping' = <<>>
    /\ applied' = 0

\* a run that opens the output file before it has enriched anything
LoadRawPosts_OpensOutput ==
    /\ pc = "start"
    /\ raw_posts' = rawFile
    /\ file' = Empty
    /\ pc' = "llm"
    /\ UNCHANGED <<rawFile, prior, enriched_posts, all_tags, tag_mapping,
                   applied, responses, unified, error>>
    /\ UNCHANGED rvars

\* line 129: raw_posts = load_raw_posts()
LoadRawPosts ==
    /\ pc = "start"
    /\ raw_posts' = rawFile
    /\ pc' = "llm"
    /\ UNCHANGED <<rawFile, file, prior, enriched_posts, all_tags, tag_mapping,
                   applied, responses, unified, error>>
    /\ UNCHANGED rvars

\* line 133: llm = get_llm(); raises ValueError without an API key
GetLlm ==
    /\ pc = "llm"
    /\ \E ok \in BOOLEAN :
        IF ok
        THEN /\ pc' = IF raw_posts = <<>> THEN "unify" ELSE "enrich"
             /\ UNCHANGED <<raw_posts, enriched_posts, all_tags, tag_mapping,
                            applied, error>>
        ELSE Fail("ValueError")
    /\ UNCHANGED <<rawFile, file, prior, responses, unified>>
    /\ UNCHANGED rvars

\* lines 140-160: one iteration of the enrichment loop
EnrichPost ==
    /\ pc = "enrich"
    /\ LET i == Len(enriched_posts) + 1
           post == raw_posts[i]
       IN IF "text" \notin DOMAIN post
          THEN /\ Fail("KeyError")
               /\ UNCHANGED responses
          ELSE \E r \in Responses :
               LET text == post.text
                   line_count == count_lines(text)
                   metadata == extract_metadata_for_post(r)
               IN /\ responses' = Append(responses, r)
                  /\ IF ~metadata.isdict
                     THEN Fail("AttributeError")
                     ELSE LET enriched_post ==
                                [text |-> text,
                                 engagement |->
                                    IF "engagement" \in DOMAIN post
                                    THEN post.engagement ELSE 0,
                                 line_count |-> line_count,
                                 language |-> DictGet(metadata.d, metadata.nulls,
                                                      "language", "English"),
                                 tags |-> IF "tags" \in metadata.nulls THEN <<>>
                                          ELSE DictGet(metadata.d, {}, "tags", <<>>)]
                          IN IF "tags" \in metadata.nulls
                             THEN Fail("TypeError")
                             ELSE /\ enriched_posts' =
                                        Append(enriched_posts, enriched_post)
                                  /\ all_tags' = all_tags \o enriched_post.tags
                                  /\ pc' = IF i = Len(raw_posts)
                                           THEN "unify" ELSE "enrich"
                                  /\ UNCHANGED <<raw_posts, tag_mapping,
                                                 applied, error>>
    /\ UNCHANGED <<rawFile, file, prior, unified>>
    /\ UNCHANGED rvars

\* line 166: tag_mapping = unify_all_tags(llm, all_tags)
UnifyTags ==
    /\ pc = "unify"
    /\ \E u \in UnifyResponses :
        /\ tag_mapping' = unify_all_tags(u, all_tags)
        /\ unified' = <<u>>
    /\ applied' = 0
    /\ pc' = IF enriched_posts = <<>> THEN "open" ELSE "apply"
    /\ UNCHANGED <<rawFile, file, prior, raw_posts, enriched_posts, all_tags,
                   responses, error>>
    /\ UNCHANGED rvars

\* lines 170-173: one iteration of the apply loop
ApplyTags ==
    /\ pc = "apply"
    /\ LET k == applied + 1
       IN /\ enriched_posts' =
                [enriched_posts EXCEPT ![k] = ApplyMapping(tag_mapping, @)]
          /\ applied' = k
          /\ pc' = IF k = Len(enriched_posts) THEN "open" ELSE "apply"
    /\ UNCHANGED <<rawFile, file, prior, raw_posts, all_tags, tag_mapping,
                   responses, unified, error>>
    /\ UNCHANGED rvars

\* line 177: open(PROCESSED_POSTS_PATH, "w") creates or truncates the file
OpenForWrite ==
    /\ pc = "open"
    /\ file' = Empty
    /\ pc' = "dump"
    /\ UNCHANGED <<rawFile, prior, raw_posts, enriched_posts, all_tags,
                   tag_mapping, applied, responses, unified, error>>
    /\ UNCHANGED rvars

\* line 178 and the end of the with block: json.dump, flush, close
DumpPosts ==
    /\ pc = "dump"
    /\ file' = Json(enriched_posts)
    /\ pc' = "done"
    /\ UNCHANGED <<rawFile, prior, raw_posts, enriched_posts, all_tags,
                   tag_mapping, applied, responses, unified, error>>
    /\ UNCHANGED rvars

(***************************************************************************)
(* few_shot.py                                                             *)
(***************************************************************************)

\* categorize_length with the upper boundary of Medium excluded
categorize_length_ExclusiveUpper(line_count) ==
    IF line_count < 5 THEN "Short"
    ELSE IF line_count < 10 THEN "Medium"
    ELSE "Long"

\* categorize_length(line_count)
categorize_length(line_count) ==
    IF line_count < 5 THEN "Short"
    ELSE IF line_count <= 10 THEN "Medium"
    ELSE "Long"

\* lines 25-28: the records as DataFrame rows, with length_category added
WithLengthCategory(posts) ==
    [i \in 1..Len(posts) |->
        [text |-> posts[i].text,
         engagement |-> posts[i].engagement,
         line_count |-> posts[i].line_count,
         language |-> posts[i].language,
         tags |-> posts[i].tags,
         length_category |-> categorize_length(posts[i].line_count)]]

\* load_posts that answers a missing file with an empty frame
load_posts_DefaultsWhenAbsent(f) ==
    IF f.state \in {"absent", "empty"} THEN [raised |-> None, rows |-> <<>>]
    ELSE IF f.posts = <<>>
    THEN [raised |-> "KeyError: 'line_count'", rows |-> <<>>]
    ELSE [raised |-> None, rows |-> WithLengthCategory(f.posts)]

\* load_posts(): the exception it raises, or the rows of the DataFrame.
\* pd.DataFrame([]) has no columns, so df["line_count"] raises KeyError on
\* a corpus of zero records.
load_posts(f) ==
    IF f.state = "absent"
    THEN [raised |-> "FileNotFoundError: run 'python preprocess.py' first",
          rows |-> <<>>]
    ELSE IF f.state = "empty"
    THEN [raised |-> "JSONDecodeError", rows |-> <<>>]
    ELSE IF f.posts = <<>>
    THEN [raised |-> "KeyError: 'line_count'", rows |-> <<>>]
    ELSE [raised |-> None, rows |-> WithLengthCategory(f.posts)]

\* Python truthiness of an optional string argument: None and "" are falsy
Truthy(arg) == arg \notin {None, ""}

\* lines 110-118: the filters that are given, applied one after the other
ExactFilter(rows, q) ==
    LET all == [i \in 1..Len(rows) |-> i]
        byLength == IF Truthy(q.length)
                    THEN SelectSeq(all, LAMBDA i : rows[i].length_category = q.length)
                    ELSE all
        byLanguage == IF Truthy(q.language)
                      THEN SelectSeq(byLength, LAMBDA i : rows[i].language = q.language)
                      ELSE byLength
    IN IF Truthy(q.tag)
       THEN SelectSeq(byLanguage, LAMBDA i : q.tag \in Range(rows[i].tags))
       ELSE byLanguage

\* lines 126-128: the reloaded corpus, filtered by the tag if one is given
TagOnlyFilter(rows, q) ==
    LET all == [i \in 1..Len(rows) |-> i]
    IN IF Truthy(q.tag)
       THEN SelectSeq(all, LAMBDA i : q.tag \in Range(rows[i].tags))
       ELSE all

\* a cascade without the tag-only stage
Candidates_SkipTagStage(rows, q) ==
    IF Len(ExactFilter(rows, q)) = 0
    THEN [i \in 1..Len(rows) |-> i]
    ELSE ExactFilter(rows, q)

\* a retrieval without any relaxation
Candidates_NoRelaxation(rows, q) == ExactFilter(rows, q)

\* lines 110-132: row labels of df before it is sorted
Candidates(rows, q) ==
    LET exact == ExactFilter(rows, q)
    IN IF Len(exact) = 0
       THEN LET relaxed == TagOnlyFilter(rows, q)
            IN IF Len(relaxed) = 0
               THEN [i \in 1..Len(rows) |-> i]
               ELSE relaxed
       ELSE exact

\* line 135: df.sort_values("engagement", ascending=False).  The default
\* kind is "quicksort", which pandas documents as not stable: rows of equal
\* engagement come out in an order the numpy build decides.
\* The outcomes are the orders of idx in which engagement never increases.
sort_values(rows, idx) ==
    {p \in [1..Len(idx) -> Range(idx)] :
        /\ \A a, b \in 1..Len(idx) : a # b => p[a] # p[b]
        /\ \A a \in 1..Len(idx) - 1 :
              rows[p[a]].engagement >= rows[p[a + 1]].engagement}

\* head that takes one row too many
head_OffByOne(idx, n) ==
    SubSeq(idx, 1, IF n + 1 < Len(idx) THEN n + 1 ELSE Len(idx))

\* df.head(n) for n > 0
head(idx, n) == SubSeq(idx, 1, IF n < Len(idx) THEN n ELSE Len(idx))

\* .to_dict("records")
to_dict(rows, idx) == [k \in 1..Len(idx) |-> rows[idx[k]]]

\* sorted() over the strings of the model
Alphabet == <<"AI", "English", "General", "Hinglish", "ML", "Topic">>

sorted(S) == SelectSeq(Alphabet, LAMBDA x : x \in S)

\* get_tags() on the loaded rows: sorted(set(all_tags))
TagsOf(rows) == sorted(UNION {Range(rows[i].tags) : i \in 1..Len(rows)})

\* value_counts().to_dict() of a column
value_counts(rows, col) ==
    [v \in {rows[i][col] : i \in 1..Len(rows)} |->
        Cardinality({i \in 1..Len(rows) : rows[i][col] = v})]

\* the sum of the first n values of a column
RECURSIVE SumOver(_, _, _)
SumOver(rows, col, n) ==
    IF n = 0 THEN 0 ELSE rows[n][col] + SumOver(rows, col, n - 1)

\* no retrieval call is in progress
Idle == [op |-> "none"]

Lengths == {None, "", "Short", "Medium", "Long"}
Languages == {None, "English", "Hinglish", "French"}
Tags == {None, "", "ML", "AI", "Rust"}

\* a retrieval call that raises returns nothing
Raise(q, e) ==
    /\ query' = q
    /\ raised' = e
    /\ df' = <<>>
    /\ results' = <<>>

\* get_filtered_posts(length, language, tag, max_results)
GetFilteredPosts ==
    /\ query = Idle
    /\ \E length \in Lengths, language \in Languages, tag \in Tags,
          max_results \in 1..MaxResults :
        LET q == [op |-> "get_filtered_posts", length |-> length,
                  language |-> language, tag |-> tag,
                  max_results |-> max_results]
            loaded == load_posts(file)
        IN IF loaded.raised # None
           THEN Raise(q, loaded.raised)
           ELSE \E ranked \in sort_values(loaded.rows,
                                          Candidates(loaded.rows, q)) :
                    /\ query' = q
                    /\ df' = ranked
                    /\ results' = to_dict(loaded.rows, head(ranked, max_results))
                    /\ raised' = None
    /\ UNCHANGED <<file, prior>>
    /\ UNCHANGED pvars

\* get_tags()
GetTags ==
    /\ query = Idle
    /\ LET q == [op |-> "get_tags"]
           loaded == load_posts(file)
       IN IF loaded.raised # None
          THEN Raise(q, loaded.raised)
          ELSE /\ query' = q
               /\ results' = TagsOf(loaded.rows)
               /\ raised' = None
               /\ df' = <<>>
    /\ UNCHANGED <<file, prior>>
    /\ UNCHANGED pvars

\* get_languages()
GetLanguages ==
    /\ query = Idle
    /\ LET q == [op |-> "get_languages"]
           loaded == load_posts(file)
           languages == {loaded.rows[i].language : i \in 1..Len(loaded.rows)}
       IN IF loaded.raised # None
          THEN Raise(q, loaded.raised)
          ELSE IF None \in languages /\ languages # {None}
          THEN Raise(q, "TypeError")   \* sorted() cannot order None and str
          ELSE /\ query' = q
               /\ results' = IF languages = {None} THEN <<None>>
                             ELSE sorted(languages)
               /\ raised' = None
               /\ df' = <<>>
    /\ UNCHANGED <<file, prior>>
    /\ UNCHANGED pvars

\* get_post_summary() with df=None; avg_* are kept as <<sum, count>>
GetPostSummary ==
    /\ query = Idle
    /\ LET q == [op |-> "get_post_summary"]
           loaded == load_posts(file)
           rows == loaded.rows
       IN IF loaded.raised # None
          THEN Raise(q, loaded.raised)
          ELSE /\ query' = q
               /\ results' =
                    [total_posts |-> Len(rows),
                     languages |-> value_counts(rows, "language"),
                     length_categories |->
                        value_counts(rows, "length_category"),
                     tags |-> TagsOf(rows),
                     avg_engagement |->
                        <<SumOver(rows, "engagement", Len(rows)),
                          Len(rows)>>,
                     avg_line_count |->
                        <<SumOver(rows, "line_count", Len(rows)),
                          Len(rows)>>]
               /\ raised' = None
               /\ df' = <<>>
    /\ UNCHANGED <<file, prior>>
    /\ UNCHANGED pvars

\* the caller takes the result; the next call can start
Return ==
    /\ query # Idle
    /\ query' = Idle
    /\ df' = <<>>
    /\ results' = <<>>
    /\ raised' = None
    /\ UNCHANGED <<file, prior>>
    /\ UNCHANGED pvars

PriorFiles == {Absent} \cup {Json(c) : c \in SeqsUpTo(CorpusPool, MaxCorpus)}

Init ==
    /\ rawFile \in SeqsUpTo(RawPool, MaxRaw)
    /\ file \in {Absent,
                 Json(<<EnrichedPost(Lines(4), 10, "English", <<"ML">>)>>)}
    /\ prior = file
    /\ pc = "start"
    /\ raw_posts = <<>>
    /\ enriched_posts = <<>>
    /\ all_tags = <<>>
    /\ tag_mapping = <<>>
    /\ applied = 0
    /\ responses = <<>>
    /\ unified = <<>>
    /\ error = None
    /\ query = Idle
    /\ df = <<>>
    /\ results = <<>>
    /\ raised = None

Next ==
    \/ LoadRawPosts
    \/ GetLlm
    \/ EnrichPost
    \/ UnifyTags
    \/ ApplyTags
    \/ OpenForWrite
    \/ DumpPosts

Spec == Init /\ [][Next]_vars

\* Retrieval over a corpus that earlier runs persisted (or none)
InitRetrieve ==
    /\ rawFile = <<>>
    /\ file \in PriorFiles
    /\ prior = file
    /\ pc = "start"
    /\ raw_posts = <<>>
    /\ enriched_posts = <<>>
    /\ all_tags = <<>>
    /\ tag_mapping = <<>>
    /\ applied = 0
    /\ responses = <<>>
    /\ unified = <<>>
    /\ error = None
    /\ query = Idle
    /\ df = <<>>
    /\ results = <<>>
    /\ raised = None

NextRetrieve ==
    \/ GetFilteredPosts
    \/ GetTags
    \/ GetLanguages
    \/ GetPostSummary
    \/ Return

SpecRetrieve == InitRetrieve /\ [][NextRetrieve]_vars

(***************************************************************************)
(* Properties of the retrieval engine, checked under SpecRetrieve          *)
(***************************************************************************)
Retrieved == query.op = "get_filtered_posts" /\ raised = None

\* the persisted posts, numbered as the DataFrame's row labels
Corpus == IF file.state = "json" THEN file.posts ELSE <<>>

\* post i passes every filter the query specifies
PassesAll(i) ==
    /\ Truthy(query.length) =>
            categorize_length(Corpus[i].line_count) = query.length
    /\ Truthy(query.language) => Corpus[i].language = query.language
    /\ Truthy(query.tag) => \E k \in 1..Len(Corpus[i].tags) :
                                Corpus[i].tags[k] = query.tag

HasTag(i) ==
    /\ Truthy(query.tag)
    /\ \E k \in 1..Len(Corpus[i].tags) : Corpus[i].tags[k] = query.tag

Stage1 == {i \in 1..Len(Corpus) : PassesAll(i)}
Stage2 == {i \in 1..Len(Corpus) : HasTag(i)}
Stage3 == 1..Len(Corpus)

\* C1: the posts that get ranked are the exact matches if there are any,
\* else the posts carrying the tag if a tag was given and some post has it,
\* else the whole corpus.
C1_Cascade ==
    Retrieved =>
        LET expected == IF Stage1 # {} THEN Stage1
                        ELSE IF Stage2 # {} THEN Stage2
                        ELSE Stage3
        IN /\ Range(df) = expected
           /\ Len(df) = Cardinality(expected)

\* a query whose exact stage is empty and whose tag-only stage is a proper,
\* non-empty part of the corpus
C1_Witness ==
    /\ Retrieved
    /\ Stage1 = {}
    /\ Stage2 # {}
    /\ Stage2 # Stage3
    /\ Truthy(query.length)
    /\ Range(df) = Stage2

\* C2: on a non-empty corpus get_filtered_posts returns at least one post,
\* whatever the filters and for every max_results > 0.
C2_NeverEmpty ==
    (query.op = "get_filtered_posts" /\ Len(Corpus) > 0) =>
        /\ raised = None
        /\ Len(results) >= 1

\* every filter is given and no post passes any of them
C2_Witness ==
    /\ Retrieved
    /\ Len(Corpus) > 0
    /\ Truthy(query.length) /\ Truthy(query.language) /\ Truthy(query.tag)
    /\ Stage1 = {}
    /\ Stage2 = {}
    /\ Len(results) >= 1

\* C3: the result has min(max_results, candidates) posts; when that is
\* fewer than max_results it is the whole candidate set.
C3_Truncation ==
    Retrieved =>
        /\ Len(results) <= query.max_results
        /\ Len(results) =
              IF query.max_results < Len(df) THEN query.max_results ELSE Len(df)
        /\ \A k \in 1..Len(results) :
              /\ results[k].text = Corpus[df[k]].text
              /\ results[k].engagement = Corpus[df[k]].engagement
              /\ results[k].tags = Corpus[df[k]].tags
        /\ Len(results) < query.max_results =>
              \A i \in Range(df) : \E k \in 1..Len(results) : df[k] = i

\* both sides of the cap: a result cut to max_results, and (C3_WitnessShort)
\* a candidate set smaller than max_results returned whole
C3_Witness ==
    /\ Retrieved
    /\ Len(df) > query.max_results
    /\ Len(results) = query.max_results
    /\ query.max_results > 1

C3_WitnessShort ==
    /\ Retrieved
    /\ Len(df) < query.max_results
    /\ Len(results) = Len(df)
    /\ Len(df) < Len(Corpus)

\* C4: the ranking is by engagement, descending, and candidates of equal
\* engagement keep their corpus order.
C4_StableRanking ==
    Retrieved =>
        \E p \in [1..Len(df) -> Range(df)] :
            /\ \A a, b \in 1..Len(df) :
                  a < b =>
                    \/ Corpus[p[a]].engagement > Corpus[p[b]].engagement
                    \/ /\ Corpus[p[a]].engagement = Corpus[p[b]].engagement
                       /\ p[a] < p[b]
            /\ \A k \in 1..Len(df) : Corpus[df[k]] = Corpus[p[k]]
            /\ \A k \in 1..Len(results) :
                  results[k].text = Corpus[p[k]].text
                  /\ results[k].language = Corpus[p[k]].language
                  /\ results[k].tags = Corpus[p[k]].tags

\* C9: on a corpus of zero records get_filtered_posts returns the empty
\* list without raising, and that is the only case in which it returns
\* nothing.
C9_EmptyCorpus ==
    query.op = "get_filtered_posts" =>
        /\ file = Json(<<>>) => (raised = None /\ results = <<>>)
        /\ (raised = None /\ results = <<>>) => file = Json(<<>>)

\* C10: with the corpus file absent every loading operation raises the
\* FileNotFoundError that names preprocess.py, returns nothing and leaves
\* the file absent.
C10_MissingCorpus ==
    (query # Idle /\ prior = Absent) =>
        /\ raised = "FileNotFoundError: run 'python preprocess.py' first"
        /\ results = <<>>
        /\ file = Absent

C10_Witness ==
    /\ query.op = "get_post_summary"
    /\ prior = Absent
    /\ raised = "FileNotFoundError: run 'python preprocess.py' first"

(***************************************************************************)
(* Properties of the enrichment pipeline, checked under Spec               *)
(***************************************************************************)
Last(s) == s[Len(s)]

RawEngagement(post) == IF "engagement" \in DOMAIN post THEN post.engagement ELSE 0

\* the enriched post of a raw post whose classification call failed
Degraded(post) ==
    [text |-> post.text,
     engagement |-> RawEngagement(post),
     line_count |-> Cardinality({k \in 1..Len(post.text) :
                                    post.text[k] \notin {"", " ", "  "}}),
     language |-> "English",
     tags |-> <<"General">>]

C6_NeverNull ==
    /\ \A i \in 1..Len(enriched_posts) : enriched_posts[i].language # None
    /\ file.state = "json" =>
          \A i \in 1..Len(file.posts) : file.posts[i].language # None

\* the tags the classification step gave post i, before unification
OriginalTags(i) ==
    IF responses[i].raises THEN <<"General">>
    ELSE IF "tags" \in DOMAIN responses[i].d THEN responses[i].d.tags
    ELSE <<>>

Canonical(tag) == IF tag \in DOMAIN tag_mapping THEN tag_mapping[tag] ELSE tag

FirstIndex(s, x) == CHOOSE k \in 1..Len(s) :
                        s[k] = x /\ \A h \in 1..(k - 1) : s[h] # x

\* out is s without its repeated values, in order of first occurrence
IsFirstOccurrenceDedup(out, s) ==
    /\ \A a, b \in 1..Len(out) : a # b => out[a] # out[b]
    /\ Range(out) = Range(s)
    /\ \A a, b \in 1..Len(out) :
          a < b => FirstIndex(s, out[a]) < FirstIndex(s, out[b])

\* C7: once the mapping is applied to a post, its tag list has no
\* duplicates and is the first-occurrence dedup of its mapped tags (a tag
\* without an entry is kept); the persisted corpus holds these lists.
C7_UnifiedTags ==
    /\ \A i \in 1..applied :
          IsFirstOccurrenceDedup(
              enriched_posts[i].tags,
              [k \in 1..Len(OriginalTags(i)) |-> Canonical(OriginalTags(i)[k])])
    /\ pc = "done" =>
          \A i \in 1..Len(file.posts) :
              file.posts[i].tags = enriched_posts[i].tags

\* a persisted post whose three original tags, two of them distinct, were
\* all sent to the same canonical tag
C7_Witness ==
    /\ pc = "done"
    /\ \E i \in 1..Len(file.posts) :
          /\ Len(OriginalTags(i)) = 3
          /\ Canonical("AI") = Canonical("ML")
          /\ Len(file.posts[i].tags) = 1

\* C8: the persisted corpus is the prior one until every raw post is
\* enriched and mapped; a run that fails leaves it as it was; the write of
\* a completed run leaves exactly the enriched posts.
C8_WriteOnceAtEnd ==
    /\ file # prior =>
          /\ pc \in {"dump", "done"}
          /\ Len(enriched_posts) = Len(rawFile)
          /\ applied = Len(enriched_posts)
    /\ pc \notin {"dump", "done"} => file = prior
    /\ pc = "done" => file = Json(enriched_posts)

\* a run over a prior corpus that enriched one post and then met a raw
\* record without text
C8_Witness ==
    /\ pc = "failed"
    /\ error = "KeyError"
    /\ Len(responses) = 1
    /\ prior.state = "json"
    /\ file = prior

\* a completed run that replaced a prior corpus of one post by two posts
C8_WitnessReplaced ==
    /\ pc = "done"
    /\ prior.state = "json"
    /\ Len(file.posts) = 2
    /\ file.posts[1] # prior.posts[1]

(***************************************************************************)
(* categorize_length on its own, checked under SpecCategorize              *)
(***************************************************************************)

\* a call categorize_length(n), as load_posts makes it for each record
CategorizeLength ==
    /\ query = Idle
    /\ \E n \in (0 - MaxLineCount)..MaxLineCount :
        /\ query' = [op |-> "categorize_length", line_count |-> n]
        /\ results' = categorize_length(n)
    /\ df' = <<>>
    /\ raised' = None
    /\ UNCHANGED <<file, prior>>
    /\ UNCHANGED pvars

NextCategorize ==
    \/ CategorizeLength
    \/ Return

SpecCategorize == InitRetrieve /\ [][NextCategorize]_vars

\* C11: every line count below 5 is Short, every one from 5 through 10 is
\* Medium, every one above 10 is Long; the function has a value everywhere.
C11_LengthBuckets ==
    query.op = "categorize_length" =>
        /\ results \in {"Short", "Medium", "Long"}
        /\ query.line_count < 5 => results = "Short"
        /\ (5 <= query.line_count /\ query.line_count <= 10) =>
              results = "Medium"
        /\ query.line_count > 10 => results = "Long"
        /\ query.line_count = 4 => results = "Short"
        /\ query.line_count \in {5, 10} => results = "Medium"
        /\ query.line_count = 11 => results = "Long"

\* the upper boundary of Medium
C11_Witness ==
    /\ query.op = "categorize_length"
    /\ query.line_count = 10
    /\ results = "Medium"

(***************************************************************************)
(* The tag mapping, checked under Spec                                     *)
(***************************************************************************)
Unified == pc \in {"apply", "open", "dump", "done"}

\* the tags the classification step gave to the enriched posts
Observed == UNION {Range(OriginalTags(i)) : i \in 1..Len(enriched_posts)}

\* C13 as stated: whether the unification call succeeds or fails, every
\* observed tag has an entry in the mapping that is applied, and on failure
\* the mapping is the identity over the observed tags.
C13_TotalMapping ==
    Unified =>
        /\ \A t \in Observed : t \in DOMAIN tag_mapping
        /\ unified[1].raises => \A t \in Observed : tag_mapping[t] = t

\* C13 as amended: on failure the mapping is the identity over exactly the
\* observed tags; on success it is the chain's answer as returned, and an
\* observed tag without an entry is kept unchanged by the apply loop.
C13_MappingOrPassThrough ==
    Unified =>
        /\ unified[1].raises =>
              /\ \A t \in Observed :
                    t \in DOMAIN tag_mapping /\ tag_mapping[t] = t
              /\ \A t \in DOMAIN tag_mapping : t \in Observed
        /\ ~unified[1].raises => tag_mapping = unified[1].mapping
        /\ \A i \in 1..applied : \A t \in Range(OriginalTags(i)) :
              t \notin DOMAIN tag_mapping => t \in Range(enriched_posts[i].tags)

\* a completed run whose unification call failed over two observed tags
C13_Witness ==
    /\ pc = "done"
    /\ unified[1].raises
    /\ Cardinality(Observed) >= 2
    /\ \A t \in Observed : tag_mapping[t] = t

\* a completed run whose unification call answered without an entry for an
\* observed tag
C13_WitnessPartial ==
    /\ pc = "done"
    /\ ~unified[1].raises
    /\ \E t \in Observed : t \notin DOMAIN tag_mapping

(***************************************************************************)
(* The apply step run repeatedly with one mapping, checked under SpecApply *)
(***************************************************************************)
TagPool == {"ML", "AI", "General"}

\* every mapping from some of the tags to tag names
Mappings == UNION {[K -> {"ML", "AI", "Topic"}] : K \in SUBSET TagPool}

InitApply ==
    /\ rawFile = <<>>
    /\ file = Absent
    /\ prior = file
    /\ pc = "apply"
    /\ raw_posts = <<>>
    /\ all_tags \in SeqsUpTo(TagPool, MaxTags)
    /\ enriched_posts = <<EnrichedPost(Lines(4), 10, "English", all_tags)>>
    /\ tag_mapping \in Mappings
    /\ applied = 0
    /\ responses = <<>>
    /\ unified = <<>>
    /\ error = None
    /\ query = Idle
    /\ df = <<>>
    /\ results = <<>>
    /\ raised = None

\* lines 170-173 over the one post, run once more with the same mapping
ApplyUnifiedTags ==
    /\ pc = "apply"
    /\ applied < MaxPasses
    /\ enriched_posts' = <<ApplyMapping(tag_mapping, enriched_posts[1])>>
    /\ applied' = applied + 1
    /\ UNCHANGED <<rawFile, file, prior, pc, raw_posts, all_tags, tag_mapping,
                   responses, unified, error>>
    /\ UNCHANGED rvars

NextApply == ApplyUnifiedTags

SpecApply == InitApply /\ [][NextApply]_vars

\* C14 as stated: for every mapping, a tag list that the apply step has
\* already canonicalized and deduplicated is left as it is by the apply
\* step with the same mapping.
C14_Idempotent ==
    [][applied >= 1 => enriched_posts' = enriched_posts]_vars

\* the mapping sends each of its values to itself (a value without an
\* entry is kept by the apply step, so it counts as sent to itself)
ValuesAreFixed ==
    \A t \in DOMAIN tag_mapping :
        tag_mapping[t] \in DOMAIN tag_mapping =>
            tag_mapping[tag_mapping[t]] = tag_mapping[t]

\* C14 as amended: the same, for every mapping that sends each of its
\* values to itself, as the identity fallback does.
C14_IdempotentOnFixedValues ==
    [][(applied >= 1 /\ ValuesAreFixed) =>
            enriched_posts' = enriched_posts]_vars

\* two passes with a mapping that merges AI and ML into ML, over a list in
\* which both occur
C14_Witness ==
    /\ applied = 2
    /\ ValuesAreFixed
    /\ DOMAIN tag_mapping = {"ML", "AI"}
    /\ tag_mapping["AI"] = "ML"
    /\ all_tags = <<"AI", "General", "ML">>
    /\ enriched_posts[1].tags = <<"ML", "General">>

(***************************************************************************)
(* A pipeline run and a reader of the corpus side by side, checked under   *)
(* SpecConcurrent.  The reader makes the calls that load the corpus once   *)
(* (get_tags, get_languages); each load reads the file as it is then.      *)
(***************************************************************************)
NextConcurrent ==
    \/ LoadRawPosts
    \/ GetLlm
    \/ EnrichPost
    \/ UnifyTags
    \/ ApplyTags
    \/ OpenForWrite
    \/ DumpPosts
    \/ GetTags
    \/ GetLanguages
    \/ Return

SpecConcurrent == Init /\ [][NextConcurrent]_vars

\* C12: whenever a retrieval loads the corpus while a run replaces a prior
\* corpus, the load sees the whole prior corpus or the whole new one: it
\* never finds the file emptied or cut short, which json.load answers with
\* JSONDecodeError.
C12_AllOrNothing ==
    (query # Idle /\ prior.state = "json") => raised # "JSONDecodeError"

====
